---- MODULE Spec2Model ----
(***************************************************************************)
(* Model of the beat-alignment utilities of python/openpose/audio/audio.py *)
(* (nearest_beat_errors, estimate_best_lag and the demo-alignment tail of  *)
(* main) and of the two-process launcher python/openpose/audio/rundual.py. *)
(*                                                                         *)
(* Numbers.  The code works on float64 arrays.  The model uses exact       *)
(* fixed-point arithmetic: a value in seconds is stored as an integer      *)
(* number of ticks, TicksPerMs * MsPerSec ticks to the second, and a value *)
(* in milliseconds is stored in the same way (TicksPerMs * MsPerSec units  *)
(* to the millisecond).  With that resolution every element of the         *)
(* 121-point lag grid, every lag / 1000.0 and every median of an even      *)
(* number of absolute errors is an integer, so no operation of the code    *)
(* is rounded.  Float rounding itself is outside the model.                *)
(***************************************************************************)
EXTENDS Integers, Sequences, FiniteSets

VARIABLES
    event_times,    \* audio.py: argument event_times (seconds)
    beat_times,     \* audio.py: argument beat_times (seconds)
    search_ms,      \* audio.py: argument search_ms of estimate_best_lag (plain ms)
    pc,             \* position of the caller
    k,              \* estimate_best_lag: number of grid candidates consumed by the for loop
    best_lag,       \* estimate_best_lag: local best_lag (ms)
    best_score,     \* estimate_best_lag: local best_score, [inf, v]
    lag_ms,         \* main: lag_ms, the value estimate_best_lag returned (ms)
    queried,        \* the event array the last nearest_beat_errors call received
    nearest,        \* result of the last top-level nearest_beat_errors call
    errors_ms,      \* result of the last top-level nearest_beat_errors call (ms)
    n_match_calls,  \* number of nearest_beat_errors calls made by estimate_best_lag
    lpc,            \* rundual.main: position of the launcher
    op_bin_exists,  \* rundual.main: op_bin.exists()
    video_exists,   \* rundual.main: video.exists()
    script_exists,  \* rundual.main: audio_script.exists()
    op_bin_runs,    \* whether Popen(openpose_cmd) can execute the binary
    conda_runs,     \* whether Popen(audio_cmd) finds "conda"
    p1,             \* OpenPose subprocess: [st, code]
    p2,             \* audio subprocess: [st, code]
    rc1,            \* rundual.main: rc1
    rc2,            \* rundual.main: rc2
    outcome         \* how rundual.main ended

audioVars == <<event_times, beat_times, search_ms, pc, k, best_lag, best_score,
               lag_ms, queried, nearest, errors_ms, n_match_calls>>
dualVars == <<lpc, op_bin_exists, video_exists, script_exists, op_bin_runs,
              conda_runs, p1, p2, rc1, rc2, outcome>>
vars == <<audioVars, dualVars>>

----------------------------------------------------------------------------
(* Bounds of the model and constants of the program *)

MaxEvents == 2
MaxBeats == 2

NumLags == 121
MsPerSec == 1000
DefaultSearchMs == 300
DemoSearchMs == 250

TicksPerMs == (NumLags - 1) \div 2

\* a time given in whole milliseconds, as a value in seconds
T(ms) == ms * TicksPerMs
\* a duration given in whole milliseconds, as a value in milliseconds
Ms(ms) == ms * TicksPerMs * MsPerSec

EventTimeValues == {T(1000), T(1052), T(2052)}
BeatTimeValues == {T(948), T(950), T(1000), T(2000)}
SearchRanges == {-100, 0, 100, DemoSearchMs, DefaultSearchMs}

----------------------------------------------------------------------------
(* numpy helpers *)

Abs(x) == IF x < 0 THEN -x ELSE x

Range(s) == {s[i] : i \in 1..Len(s)}

AbsSeq(s) == [i \in 1..Len(s) |-> Abs(s[i])]

RECURSIVE InsertSorted(_, _)
InsertSorted(x, s) ==
    IF s = <<>> THEN <<x>>
    ELSE IF x <= Head(s) THEN <<x>> \o s
    ELSE <<Head(s)>> \o InsertSorted(x, Tail(s))

RECURSIVE Sorted(_)
Sorted(s) == IF s = <<>> THEN <<>> ELSE InsertSorted(Head(s), Sorted(Tail(s)))

\* np.median of a non-empty array: the middle element, or the mean of the two
\* middle elements (exact here: absolute errors are multiples of MsPerSec)
Median(s) ==
    LET t == Sorted(s)
        n == Len(s)
    IN  IF n % 2 = 1 THEN t[(n + 1) \div 2]
        ELSE (t[n \div 2] + t[n \div 2 + 1]) \div 2

\* np.linspace(start, stop, num), as a sequence
Linspace(start, stop, num) ==
    [j \in 1..num |-> start + (j - 1) * ((stop - start) \div (num - 1))]

\* non-decreasing sequences over S of length at most n
NonDecreasingSeqs(S, n) ==
    UNION {{s \in [1..m -> S] : \A i \in 1..(m - 1) : s[i] <= s[i + 1]} : m \in 0..n}

SeqsUpTo(S, n) == UNION {[1..m -> S] : m \in 0..n}

----------------------------------------------------------------------------
(* nearest_beat_errors *)

\* a bisection that takes the first beat not below e and never looks left of it
QueryIdxsBisectLeft(e, beats) ==
    LET ge == {i \in 1..Len(beats) : beats[i] >= e}
    IN  IF ge = {} THEN {Len(beats)} ELSE {CHOOSE i \in ge : \A j \in ge : i <= j}

\* tree.query(e, k=1): the index of a beat at minimal distance of e; which one
\* of several equidistant beats is returned is left to the tree
QueryIdxs(e, beats) ==
    {i \in 1..Len(beats) : \A j \in 1..Len(beats) : Abs(e - beats[i]) <= Abs(e - beats[j])}

\* the difference taken the other way round
ErrorsMsFlipped(events, near) ==
    [i \in 1..Len(events) |-> (near[i] - events[i]) * MsPerSec]

\* errors_ms = (event_times - nearest) * 1000.0
ErrorsMs(events, near) == [i \in 1..Len(events) |-> (events[i] - near[i]) * MsPerSec]

\* a guard that forgets the beats
IsDegenerateEventsOnly(events, beats) == Len(events) = 0

\* the guard of line 38
IsDegenerate(events, beats) == Len(beats) = 0 \/ Len(events) = 0

\* the outcomes of nearest_beat_errors(events, beats)
nearest_beat_errors(events, beats) ==
    IF IsDegenerate(events, beats)
    THEN {[raised |-> FALSE, nearest |-> <<>>, errors_ms |-> <<>>]}
    ELSE IF Len(beats) = 0
    THEN \* a tree over no points answers every query with index 0 of an empty array
         {[raised |-> TRUE, nearest |-> <<>>, errors_ms |-> <<>>]}
    ELSE {[raised |-> FALSE,
           nearest |-> [i \in 1..Len(events) |-> beats[idxs[i]]],
           errors_ms |-> ErrorsMs(events, [i \in 1..Len(events) |-> beats[idxs[i]]])] :
            idxs \in {f \in [1..Len(events) -> 1..Len(beats)] :
                        \A i \in 1..Len(events) : f[i] \in QueryIdxs(events[i], beats)}}

----------------------------------------------------------------------------
(* estimate_best_lag *)

Inf == [inf |-> TRUE, v |-> 0]
Finite(x) == [inf |-> FALSE, v |-> x]

\* score <= best_score: the last of several equal candidates wins
ScoreLessEq(a, b) == ~a.inf /\ (b.inf \/ a.v <= b.v)

\* score < best_score on floats with np.inf
ScoreLess(a, b) == ~a.inf /\ (b.inf \/ a.v < b.v)

\* a grid that starts one step late and ends one step past search_ms
LagsOffByOne(s) ==
    [j \in 1..NumLags |-> Ms(-s) + j * ((Ms(s) - Ms(-s)) \div (NumLags - 1))]

\* lags = np.linspace(-search_ms, search_ms, 121)
Lags(s) == Linspace(Ms(-s), Ms(s), NumLags)

\* the lag subtracted instead of added
ShiftedBack(events, lag) == [i \in 1..Len(events) |-> events[i] - lag \div MsPerSec]

\* shifted = event_times + (lag / 1000.0)
Shifted(events, lag) == [i \in 1..Len(events) |-> events[i] + lag \div MsPerSec]

\* the median of the signed errors
ScoreOfSigned(errs) == IF Len(errs) > 0 THEN Finite(Median(errs)) ELSE Inf

\* score = np.median(np.abs(errs)) if len(errs) else np.inf
ScoreOf(errs) == IF Len(errs) > 0 THEN Finite(Median(AbsSeq(errs))) ELSE Inf

\* a guard that returns early only when both inputs are empty
LagDegenerateBoth(events, beats) == Len(events) = 0 /\ Len(beats) = 0

\* the guard of line 47
LagDegenerate(events, beats) == Len(events) = 0 \/ Len(beats) = 0

----------------------------------------------------------------------------
(* Initial states *)

Scenarios ==
    { <<<<T(1050), T(2050), T(3050), T(4050)>>, <<T(1000), T(2000), T(3000), T(4000)>>>>,
      <<<<T(1000), T(2000)>>, <<T(500), T(1500), T(2500)>>>> }

Inputs ==
    (SeqsUpTo(EventTimeValues, MaxEvents) \X NonDecreasingSeqs(BeatTimeValues, MaxBeats))
        \cup Scenarios

DualIdle ==
    /\ lpc = "idle"
    /\ op_bin_exists = TRUE
    /\ video_exists = TRUE
    /\ script_exists = TRUE
    /\ op_bin_runs = TRUE
    /\ conda_runs = TRUE
    /\ p1 = [st |-> "none", code |-> 0]
    /\ p2 = [st |-> "none", code |-> 0]
    /\ rc1 = 0
    /\ rc2 = 0
    /\ outcome = "none"

\* the inputs of the alignment functions
Init ==
    /\ \E in \in Inputs : event_times = in[1] /\ beat_times = in[2]
    /\ search_ms \in SearchRanges
    /\ pc = "init"
    /\ k = 0
    /\ best_lag = 0
    /\ best_score = Inf
    /\ lag_ms = 0
    /\ queried = <<>>
    /\ nearest = <<>>
    /\ errors_ms = <<>>
    /\ n_match_calls = 0
    /\ DualIdle

----------------------------------------------------------------------------
(* Actions of audio.py *)

\* a call nearest_beat_errors(event_times, beat_times)
Match ==
    /\ pc = "init"
    /\ \E r \in nearest_beat_errors(event_times, beat_times) :
        /\ nearest' = r.nearest
        /\ errors_ms' = r.errors_ms
        /\ pc' = IF r.raised THEN "raised" ELSE "matched"
    /\ queried' = event_times
    /\ UNCHANGED <<event_times, beat_times, search_ms, k, best_lag, best_score,
                   lag_ms, n_match_calls>>
    /\ UNCHANGED dualVars

\* estimate_best_lag, lines 47-48: either input is empty
LagReturnEmpty ==
    /\ pc = "init"
    /\ LagDegenerate(event_times, beat_times)
    /\ lag_ms' = 0
    /\ pc' = "lag_done"
    /\ UNCHANGED <<event_times, beat_times, search_ms, k, best_lag, best_score,
                   queried, nearest, errors_ms, n_match_calls>>
    /\ UNCHANGED dualVars

\* estimate_best_lag, lines 49-50: the grid is built, the search starts
LagStart ==
    /\ pc = "init"
    /\ ~LagDegenerate(event_times, beat_times)
    /\ best_lag' = 0
    /\ best_score' = Inf
    /\ k' = 0
    /\ pc' = "loop"
    /\ UNCHANGED <<event_times, beat_times, search_ms, lag_ms, queried, nearest,
                   errors_ms, n_match_calls>>
    /\ UNCHANGED dualVars

\* estimate_best_lag, lines 51-56: one iteration of the for loop
LagStep ==
    /\ pc = "loop"
    /\ k < NumLags
    /\ LET lag == Lags(search_ms)[k + 1]
       IN  \E r \in nearest_beat_errors(Shifted(event_times, lag), beat_times) :
            LET score == ScoreOf(r.errors_ms)
            IN  IF r.raised
                THEN /\ pc' = "raised"
                     /\ UNCHANGED <<best_lag, best_score>>
                ELSE /\ pc' = "loop"
                     /\ IF ScoreLess(score, best_score)
                        THEN best_score' = score /\ best_lag' = lag
                        ELSE UNCHANGED <<best_lag, best_score>>
    /\ k' = k + 1
    /\ n_match_calls' = n_match_calls + 1
    /\ UNCHANGED <<event_times, beat_times, search_ms, lag_ms, queried, nearest, errors_ms>>
    /\ UNCHANGED dualVars

\* estimate_best_lag, line 57: the loop is over, best_lag is returned
LagReturn ==
    /\ pc = "loop"
    /\ k = NumLags
    /\ lag_ms' = best_lag
    /\ pc' = "lag_done"
    /\ UNCHANGED <<event_times, beat_times, search_ms, k, best_lag, best_score,
                   queried, nearest, errors_ms, n_match_calls>>
    /\ UNCHANGED dualVars

\* main, line 108: nearest_beat_errors(event_times + lag_ms / 1000.0, beat_times)
Rematch ==
    /\ pc = "lag_done"
    /\ \E r \in nearest_beat_errors(Shifted(event_times, lag_ms), beat_times) :
        /\ nearest' = r.nearest
        /\ errors_ms' = r.errors_ms
        /\ pc' = IF r.raised THEN "raised" ELSE "done"
    /\ queried' = Shifted(event_times, lag_ms)
    /\ UNCHANGED <<event_times, beat_times, search_ms, k, best_lag, best_score,
                   lag_ms, n_match_calls>>
    /\ UNCHANGED dualVars

Next ==
    \/ Match
    \/ LagReturnEmpty
    \/ LagStart
    \/ LagStep
    \/ LagReturn
    \/ Rematch

Spec == Init /\ [][Next]_vars

----------------------------------------------------------------------------
(* rundual.py: the launcher and its two subprocesses *)

ExitCodes == {0, 1, 2}

NotStarted == [st |-> "none", code |-> 0]
Running == [st |-> "running", code |-> 0]
Exited(c) == [st |-> "exited", code |-> c]

\* an error only when both subprocesses failed
BothFailed(a, b) == a # 0 /\ b # 0

\* the condition of line 68
AnyFailed(a, b) == a # 0 \/ b # 0

AudioIdle ==
    /\ event_times = <<>>
    /\ beat_times = <<>>
    /\ search_ms = DefaultSearchMs
    /\ pc = "idle"
    /\ k = 0
    /\ best_lag = 0
    /\ best_score = Inf
    /\ lag_ms = 0
    /\ queried = <<>>
    /\ nearest = <<>>
    /\ errors_ms = <<>>
    /\ n_match_calls = 0

InitDual ==
    /\ AudioIdle
    /\ lpc = "check_bin"
    /\ op_bin_exists \in BOOLEAN
    /\ video_exists \in BOOLEAN
    /\ script_exists \in BOOLEAN
    /\ op_bin_runs \in BOOLEAN
    /\ conda_runs \in BOOLEAN
    /\ p1 = NotStarted
    /\ p2 = NotStarted
    /\ rc1 = 0
    /\ rc2 = 0
    /\ outcome = "none"

\* one of the three sanity checks: sys.exit(message) when the path is missing
SanityCheck(here, exists, next) ==
    /\ lpc = here
    /\ IF exists
       THEN lpc' = next /\ outcome' = outcome
       ELSE lpc' = "exited" /\ outcome' = "error"
    /\ UNCHANGED <<op_bin_exists, video_exists, script_exists, op_bin_runs,
                   conda_runs, p1, p2, rc1, rc2>>
    /\ UNCHANGED audioVars

\* lines 28-29
CheckBin == SanityCheck("check_bin", op_bin_exists, "check_video")

\* lines 30-31
CheckVideo == SanityCheck("check_video", video_exists, "check_script")

\* lines 32-33 (and the mkdir calls of lines 36-39)
CheckScript == SanityCheck("check_script", script_exists, "launch1")

\* lines 57-59: Popen(openpose_cmd); Popen raises when the file cannot be executed
LaunchOpenPose ==
    /\ lpc = "launch1"
    /\ IF op_bin_runs
       THEN p1' = Running /\ lpc' = "launch2" /\ outcome' = outcome
       ELSE p1' = p1 /\ lpc' = "exited" /\ outcome' = "exception"
    /\ UNCHANGED <<op_bin_exists, video_exists, script_exists, op_bin_runs,
                   conda_runs, p2, rc1, rc2>>
    /\ UNCHANGED audioVars

\* lines 62-64: Popen(audio_cmd); Popen raises when "conda" is not on the PATH
LaunchAudio ==
    /\ lpc = "launch2"
    /\ IF conda_runs
       THEN p2' = Running /\ lpc' = "wait1" /\ outcome' = outcome
       ELSE p2' = p2 /\ lpc' = "exited" /\ outcome' = "exception"
    /\ UNCHANGED <<op_bin_exists, video_exists, script_exists, op_bin_runs,
                   conda_runs, p1, rc1, rc2>>
    /\ UNCHANGED audioVars

\* the OpenPose process ends, with some exit code
OpenPoseExits ==
    /\ p1.st = "running"
    /\ \E c \in ExitCodes : p1' = Exited(c)
    /\ UNCHANGED <<lpc, op_bin_exists, video_exists, script_exists, op_bin_runs,
                   conda_runs, p2, rc1, rc2, outcome>>
    /\ UNCHANGED audioVars

\* the audio process ends, with some exit code
AudioExits ==
    /\ p2.st = "running"
    /\ \E c \in ExitCodes : p2' = Exited(c)
    /\ UNCHANGED <<lpc, op_bin_exists, video_exists, script_exists, op_bin_runs,
                   conda_runs, p1, rc1, rc2, outcome>>
    /\ UNCHANGED audioVars

\* line 66: rc1 = p1.wait()
WaitOpenPose ==
    /\ lpc = "wait1"
    /\ p1.st = "exited"
    /\ rc1' = p1.code
    /\ lpc' = "wait2"
    /\ UNCHANGED <<op_bin_exists, video_exists, script_exists, op_bin_runs,
                   conda_runs, p1, p2, rc2, outcome>>
    /\ UNCHANGED audioVars

\* line 67: rc2 = p2.wait()
WaitAudio ==
    /\ lpc = "wait2"
    /\ p2.st = "exited"
    /\ rc2' = p2.code
    /\ lpc' = "decide"
    /\ UNCHANGED <<op_bin_exists, video_exists, script_exists, op_bin_runs,
                   conda_runs, p1, p2, rc1, outcome>>
    /\ UNCHANGED audioVars

\* lines 68-70: sys.exit(message) or print("done")
Decide ==
    /\ lpc = "decide"
    /\ outcome' = IF AnyFailed(rc1, rc2) THEN "error" ELSE "success"
    /\ lpc' = "exited"
    /\ UNCHANGED <<op_bin_exists, video_exists, script_exists, op_bin_runs,
                   conda_runs, p1, p2, rc1, rc2>>
    /\ UNCHANGED audioVars

NextDual ==
    \/ CheckBin
    \/ CheckVideo
    \/ CheckScript
    \/ LaunchOpenPose
    \/ LaunchAudio
    \/ OpenPoseExits
    \/ AudioExits
    \/ WaitOpenPose
    \/ WaitAudio
    \/ Decide

SpecDual == InitDual /\ [][NextDual]_vars

----------------------------------------------------------------------------
(* Reference values for the properties, computed apart from the actions *)

NonEmptyInputs == Len(event_times) > 0 /\ Len(beat_times) > 0

AfterMatch == pc \in {"matched", "done"}

AfterLag == pc \in {"lag_done", "done"}

\* the distance (seconds) from t to the closest beat
MinDist(t, beats) ==
    CHOOSE d \in {Abs(t - beats[i]) : i \in 1..Len(beats)} :
        \A j \in 1..Len(beats) : d <= Abs(t - beats[j])

\* the median absolute error (ms) of events against beats
MedianAbsError(events, beats) ==
    Median([i \in 1..Len(events) |-> MinDist(events[i], beats) * MsPerSec])

\* the spacing (ms) of the candidate grid
GridStep == (Ms(search_ms) - Ms(-search_ms)) \div (NumLags - 1)

\* the score (ms) of the j-th candidate of the grid
GridScore(j) ==
    MedianAbsError([i \in 1..Len(event_times) |->
                      event_times[i] + Lags(search_ms)[j] \div MsPerSec], beat_times)

----------------------------------------------------------------------------
(* Properties of nearest_beat_errors *)

\* C1: for non-empty inputs the matcher returns, index by index, one beat per
\* event, taken from beat_times, such that no beat is strictly closer to the event.
C1_NearestIsClosest ==
    (AfterMatch /\ Len(queried) > 0 /\ Len(beat_times) > 0) =>
        /\ Len(nearest) = Len(queried)
        /\ \A i \in 1..Len(queried) :
            /\ nearest[i] \in Range(beat_times)
            /\ \A b \in Range(beat_times) :
                Abs(queried[i] - b) >= Abs(queried[i] - nearest[i])

\* C1 witness: two events given out of order are matched to two different beats
C1_Witness ==
    /\ pc = "matched"
    /\ Len(queried) = 2
    /\ Len(beat_times) = 2
    /\ queried[1] > queried[2]
    /\ nearest[1] > nearest[2]

\* an event exactly midway between two neighbouring beats one second apart
Midway(t, beats) ==
    \E b1, b2 \in Range(beats) :
        /\ b2 - b1 = T(MsPerSec)
        /\ t - b1 = b2 - t
        /\ \A b \in Range(beats) : b <= b1 \/ b >= b2

\* C2: errors_ms[i] is (event - nearest beat) * 1000, negative exactly when the
\* event precedes its nearest beat, and of magnitude 500 for an event midway
\* between two beats one second apart.
C2_SignedErrors ==
    (AfterMatch /\ Len(queried) > 0 /\ Len(beat_times) > 0) =>
        /\ Len(errors_ms) = Len(queried)
        /\ \A i \in 1..Len(queried) :
            /\ errors_ms[i] = (queried[i] - nearest[i]) * MsPerSec
            /\ (errors_ms[i] < 0) <=> (queried[i] < nearest[i])
            /\ Midway(queried[i], beat_times) => Abs(errors_ms[i]) = Ms(500)

\* C2 witness: both events of the midway scenario are matched, one of them to
\* the later beat (a negative error)
C2_Witness ==
    /\ pc = "matched"
    /\ Len(queried) = 2
    /\ \A i \in 1..2 : Midway(queried[i], beat_times)
    /\ errors_ms[1] < 0

\* C5: when the events or the beats are empty the matcher returns two empty
\* sequences and does not raise.
C5_EmptyInEmptyOut ==
    (pc \in {"matched", "done", "raised"} /\ (Len(queried) = 0 \/ Len(beat_times) = 0)) =>
        /\ pc # "raised"
        /\ nearest = <<>>
        /\ errors_ms = <<>>

\* C5 witness: the matcher has returned for events without any beat
C5_Witness ==
    /\ pc = "matched"
    /\ Len(event_times) > 0
    /\ Len(beat_times) = 0
    /\ queried = event_times

----------------------------------------------------------------------------
(* Properties of estimate_best_lag *)

\* C3: with a positive search range, best_lag and the returned lag lie in
\* [-search_ms, +search_ms] at every point of the search and after it.
C3_LagWithinRange ==
    search_ms > 0 =>
        /\ -Ms(search_ms) <= best_lag /\ best_lag <= Ms(search_ms)
        /\ -Ms(search_ms) <= lag_ms /\ lag_ms <= Ms(search_ms)

\* C3 witness: the search has returned an endpoint of the range
C3_Witness ==
    /\ pc = "lag_done"
    /\ search_ms > 0
    /\ NonEmptyInputs
    /\ lag_ms = Ms(search_ms)

\* C4: the returned lag is the first candidate, in ascending order, whose score
\* is the minimum over the grid.
C4_FirstStrictMinimum ==
    (AfterLag /\ NonEmptyInputs /\ search_ms > 0) =>
        LET score == [j \in 1..NumLags |-> GridScore(j)]
        IN  \E j \in 1..NumLags :
                /\ lag_ms = Lags(search_ms)[j]
                /\ \A i \in 1..NumLags : score[j] <= score[i]
                /\ \A i \in 1..(j - 1) : score[j] < score[i]

\* C4 witness: a later candidate of smaller magnitude has the same minimal score
C4_Witness ==
    /\ pc = "lag_done"
    /\ NonEmptyInputs
    /\ search_ms > 0
    /\ \E j \in 1..NumLags :
        /\ Abs(Lags(search_ms)[j]) < Abs(lag_ms)
        /\ lag_ms < Lags(search_ms)[j]
        /\ \A i \in 1..NumLags : GridScore(j) <= GridScore(i)

\* C6: with empty events or empty beats the search is never entered, the
\* matcher is never called and 0 is returned.
C6_EmptyReturnsZeroNoSearch ==
    (Len(event_times) = 0 \/ Len(beat_times) = 0) =>
        /\ pc # "loop"
        /\ k = 0
        /\ n_match_calls = 0
        /\ AfterLag => lag_ms = 0

\* C6 witness: the search has returned for events without any beat
C6_Witness ==
    /\ pc = "lag_done"
    /\ Len(event_times) > 0
    /\ Len(beat_times) = 0
    /\ lag_ms = 0

\* C7: estimate_best_lag called with a non-positive search range does not
\* return a number.
C7_InvalidConfigFailsFast ==
    (search_ms <= 0 /\ NonEmptyInputs) => pc # "lag_done"

\* d (seconds) is a constant offset of the events from distinct beats, within
\* the search range
ConstOffset(d) ==
    /\ Len(event_times) > 0
    /\ \A i \in 1..Len(event_times) : (event_times[i] - d) \in Range(beat_times)
    /\ \A i, j \in 1..Len(event_times) : i # j => event_times[i] # event_times[j]
    /\ Abs(d) * MsPerSec <= Ms(search_ms)

\* any two different beat times are more than 2 * (|d| + search_ms) apart
WideGaps(d) ==
    \A b1, b2 \in Range(beat_times) :
        b1 # b2 => Abs(b1 - b2) * MsPerSec > 2 * (Abs(d) * MsPerSec + Ms(search_ms))

\* what C8 promises for the offset d
OffsetRecovered(d) ==
    /\ pc = "matched" =>
        \A i \in 1..Len(errors_ms) : errors_ms[i] = d * MsPerSec
    /\ AfterLag => Abs(lag_ms + d * MsPerSec) <= GridStep
    /\ pc = "done" =>
        /\ Median(AbsSeq(errors_ms)) <= GridStep
        /\ Median(AbsSeq(errors_ms)) <= Ms(5)

PossibleOffsets == {event_times[1] - b : b \in Range(beat_times)}

\* C8 as stated: whenever the events are distinct beats plus one offset d within
\* the search range, the unshifted errors equal d, the returned lag is within
\* one grid step of -d and the re-matched median error is at most one grid step
\* (taken here for the inputs that have exactly one such offset).
C8_AsStated ==
    (search_ms > 0 /\ NonEmptyInputs) =>
        \A d \in PossibleOffsets :
            (ConstOffset(d) /\ \A o \in PossibleOffsets : ConstOffset(o) => o = d)
                => OffsetRecovered(d)

\* C8 amended: the same, when in addition any two different beat times are more
\* than 2 * (|d| + search_ms) apart.
C8_OffsetRecoveredWideGaps ==
    (search_ms > 0 /\ NonEmptyInputs) =>
        \A d \in PossibleOffsets : (ConstOffset(d) /\ WideGaps(d)) => OffsetRecovered(d)

\* C8 witness: two events late by an offset that is not on the grid have been
\* re-matched after the search
C8_Witness ==
    /\ pc = "done"
    /\ search_ms > 0
    /\ Len(event_times) = 2
    /\ Len(beat_times) = 2
    /\ \E d \in PossibleOffsets :
        /\ d > 0
        /\ ConstOffset(d)
        /\ WideGaps(d)
        /\ lag_ms # -d * MsPerSec

\* C9: after the search, the median absolute error of the events shifted by the
\* returned lag is at most the median absolute error of the unshifted events.
C9_LagNeverWorse ==
    (pc = "done" /\ NonEmptyInputs) =>
        Median(AbsSeq(errors_ms)) <= MedianAbsError(event_times, beat_times)

\* C9 witness: the returned lag is not 0 and strictly improves the alignment
C9_Witness ==
    /\ pc = "done"
    /\ NonEmptyInputs
    /\ lag_ms # 0
    /\ Median(AbsSeq(errors_ms)) < MedianAbsError(event_times, beat_times)

----------------------------------------------------------------------------
(* Properties of the launcher *)

BothStarted == p1.st # "none" /\ p2.st # "none"

BothExited == p1.st = "exited" /\ p2.st = "exited"

LauncherStep ==
    \/ WaitOpenPose
    \/ WaitAudio
    \/ Decide

\* C10: no subprocess is started when a path is missing; no wait happens before
\* both subprocesses are started; the launcher gets past its waits only when
\* both have exited, and is never blocked once both have; success is reported
\* only if both exit codes are 0, and an error exit otherwise.
C10_LauncherWaitsForBoth ==
    /\ ~(op_bin_exists /\ video_exists /\ script_exists) =>
        p1.st = "none" /\ p2.st = "none"
    /\ lpc \in {"wait1", "wait2", "decide"} => BothStarted
    /\ lpc = "wait2" => (p1.st = "exited" /\ rc1 = p1.code)
    /\ (lpc = "decide" \/ outcome \in {"success", "error"}) /\ BothStarted =>
        BothExited /\ rc1 = p1.code /\ rc2 = p2.code
    /\ (lpc \in {"wait1", "wait2", "decide"} /\ BothExited) => ENABLED LauncherStep
    /\ outcome = "success" => (BothExited /\ p1.code = 0 /\ p2.code = 0)
    /\ (lpc = "exited" /\ BothStarted /\ (p1.code # 0 \/ p2.code # 0)) =>
        outcome = "error"

\* C10 witness: the launcher ended with an error after OpenPose succeeded and
\* the audio script failed
C10_Witness ==
    /\ lpc = "exited"
    /\ BothExited
    /\ p1.code = 0
    /\ p2.code # 0
    /\ outcome = "error"

====
